---- MODULE Spec2Model ----
(***************************************************************************)
(* Workout service: the PostgreSQL workout store (CreateWorkout,           *)
(* GetWorkoutByID, UpdateWorkout) and the HTTP handlers built on it        *)
(* (HandleGetWorkoutByID, HandleCreateWorkout, HandleUpdateWorkoutByID,    *)
(* HandleDeleteWorkoutByID).                                               *)
(*                                                                         *)
(* The database is the value db: the two tables workouts and               *)
(* workout_entries as sets of rows, and the two identity sequences.        *)
(* A Go pointer is a sequence of length 0 (nil) or 1 (the value pointed    *)
(* to); an error is a string, "" being the nil error.                      *)
(***************************************************************************)
EXTENDS Integers, Sequences, FiniteSets, TLC

VARIABLES
    db,        \* committed database state: tables and sequences
    req,       \* the last store call or HTTP request handled
    resp,      \* what that call returned / what was written to the response
    pre,       \* committed database state when that call started
    nreq,      \* number of calls handled so far
    rd,        \* a GetWorkoutByID call in progress, statement by statement
    versions   \* committed versions of rd's workout since that call started

vars == <<db, req, resp, pre, nreq, rd, versions>>

-----------------------------------------------------------------------------
(* Bounds *)

MaxRequests == 2

-----------------------------------------------------------------------------
(* Values *)

Nil == <<>>
Ptr(x) == <<x>>

\* errors
NoErr == ""
ErrNoRows == "sql: no rows in result set"
ErrConnDone == "sql: connection is already closed"
ErrOther == "database error"

\* WorkoutEntry values a client submits; ID is the zero value. Reps,
\* DurationSeconds and Weight are pointers.
Squat == [ID |-> 0, ExerciseName |-> "Squat", Sets |-> 3, Reps |-> Ptr(10),
          DurationSeconds |-> Nil, Weight |-> Ptr(60), Notes |-> "",
          OrderIndex |-> 0]
Lunge == [ID |-> 0, ExerciseName |-> "Lunge", Sets |-> 2, Reps |-> Ptr(0),
          DurationSeconds |-> Nil, Weight |-> Nil, Notes |-> "slow",
          OrderIndex |-> 1]
Plank == [ID |-> 0, ExerciseName |-> "Plank", Sets |-> 1, Reps |-> Nil,
          DurationSeconds |-> Ptr(60), Weight |-> Nil, Notes |-> "",
          OrderIndex |-> 1]

\* entry lists a client submits: empty, one entry, ascending order_index,
\* descending order_index, equal order_index
EntryLists == {<<>>, <<Squat>>, <<Squat, Lunge>>, <<Lunge, Squat>>, <<Lunge, Plank>>}

ZeroScalars == [Title |-> "", Description |-> "", DurationMinutes |-> 0,
                CaloriesBurned |-> 0]
FullScalars == [Title |-> "Leg Day", Description |-> "legs", DurationMinutes |-> 45,
                CaloriesBurned |-> 300]
ScalarFields == {"Title", "Description", "DurationMinutes", "CaloriesBurned"}

MkWorkout(id, sc, uid, es) ==
    [ID |-> id, Title |-> sc.Title, Description |-> sc.Description,
     DurationMinutes |-> sc.DurationMinutes, CaloriesBurned |-> sc.CaloriesBurned,
     UserID |-> uid, Entries |-> es]

EmptyDB == [workouts |-> {}, workout_entries |-> {}, workouts_id_seq |-> 0,
            workout_entries_id_seq |-> 0]

-----------------------------------------------------------------------------
(* Store: rows and statements *)

\* user_id column of an inserted workouts row. The INSERT of CreateWorkout
\* names no user_id column; the handler sets workout.UserID before the call
\* and GetWorkoutOwner reads the column back.
InsertedUserID(workout) == workout.UserID

\* INSERT INTO workouts (title, description, duration_minutes, calories_burned)
WorkoutRow(id, workout) ==
    [id |-> id, title |-> workout.Title, description |-> workout.Description,
     duration_minutes |-> workout.DurationMinutes,
     calories_burned |-> workout.CaloriesBurned,
     user_id |-> InsertedUserID(workout)]

\* INSERT INTO workout_entries (workout_id, exercise_name, sets, reps,
\*   duration_seconds, weight, notes, order_index): entry.ID is not a column
\* of the statement, the row's id comes from the sequence.
EntryRow(id, workoutID, entry) ==
    [id |-> id, workout_id |-> workoutID, exercise_name |-> entry.ExerciseName,
     sets |-> entry.Sets, reps |-> entry.Reps,
     duration_seconds |-> entry.DurationSeconds, weight |-> entry.Weight,
     notes |-> entry.Notes, order_index |-> entry.OrderIndex]

\* rows.Scan of one workout_entries row into a WorkoutEntry
ScanEntry(row) ==
    [ID |-> row.id, ExerciseName |-> row.exercise_name, Sets |-> row.sets,
     Reps |-> row.reps, DurationSeconds |-> row.duration_seconds,
     Weight |-> row.weight, Notes |-> row.notes, OrderIndex |-> row.order_index]

\* the first k entries of the list inserted into tx for workout wid, in the
\* given order, each taking the next value of the entries sequence
RECURSIVE InsertEntries(_, _, _, _)
InsertEntries(tx, wid, entries, k) ==
    IF k = 0 THEN tx
    ELSE LET t == InsertEntries(tx, wid, entries, k - 1)
             id == t.workout_entries_id_seq + 1
         IN [t EXCEPT !.workout_entries = @ \cup {EntryRow(id, wid, entries[k])},
                      !.workout_entries_id_seq = id]

\* a store without the deferred rollback: what the transaction wrote stays
RollbackKeepsWrites(d, tx) == tx

\* The state a transaction leaves committed when it ends without Commit
\* (the deferred tx.Rollback): the tables as they were before Begin. Values
\* drawn from the sequences are not given back.
Rollback(d, tx) ==
    [d EXCEPT !.workouts_id_seq = tx.workouts_id_seq,
              !.workout_entries_id_seq = tx.workout_entries_id_seq]

\* where a transaction fails: nowhere, at Begin, at the header statement,
\* at RowsAffected, at the DELETE, at the k-th entry INSERT, at Commit
NoFault == [at |-> "none", k |-> 0]
Fault(at) == [at |-> at, k |-> 0]
CreateFaults(n) ==
    {NoFault, Fault("begin"), Fault("header"), Fault("commit")}
        \cup {[at |-> "entry", k |-> k] : k \in 1..n}
UpdateFaults(n) ==
    CreateFaults(n) \cup {Fault("rows"), Fault("delete")}

\* number of entry INSERTs that ran successfully under fault f
InsertedCount(n, f) == IF f.at = "entry" THEN f.k - 1 ELSE n

-----------------------------------------------------------------------------
(* Store: operations. Each takes the committed database d and returns the *)
(* committed database after the call together with the call's results.    *)

\* PostgresWorkoutStore.CreateWorkout under fault f. The range loop scans
\* each RETURNING id into its loop variable, a copy of the slice element,
\* so the returned workout's Entries are the submitted values.
CreateWorkout(d, workout, f) ==
    IF f.at \in {"begin", "header"}
    THEN [db |-> d, ret |-> Nil, err |-> ErrOther]
    ELSE LET id == d.workouts_id_seq + 1
             w == [workout EXCEPT !.ID = id]
             tx1 == [d EXCEPT !.workouts = @ \cup {WorkoutRow(id, w)},
                              !.workouts_id_seq = id]
             tx2 == InsertEntries(tx1, id, w.Entries,
                                  InsertedCount(Len(w.Entries), f))
         IN  CASE f.at = "entry" ->
                    [db |-> Rollback(d, tx2), ret |-> Nil, err |-> ErrOther]
               [] f.at = "commit" ->
                    [db |-> Rollback(d, tx2), ret |-> Nil, err |-> ErrConnDone]
               [] OTHER ->
                    [db |-> tx2, ret |-> Ptr(w), err |-> NoErr]

\* SELECT id, title, description, duration_minutes, calories_burned
\* FROM workouts WHERE id = $1: the matching rows (none or one)
SelectWorkout(d, id) == {r \in d.workouts : r.id = id}

\* Scan of the header row into a fresh Workout (UserID is not selected)
ScanWorkout(r) ==
    [ID |-> r.id, Title |-> r.title, Description |-> r.description,
     DurationMinutes |-> r.duration_minutes,
     CaloriesBurned |-> r.calories_burned, UserID |-> 0, Entries |-> <<>>]

\* the entries query without its ORDER BY: the rows in any order
SelectEntriesUnordered(d, id) ==
    LET rows == {e \in d.workout_entries : e.workout_id = id}
        n == Cardinality(rows)
        perms == {s \in [1..n -> rows] : \A i, j \in 1..n : i # j => s[i] # s[j]}
    IN  {[i \in 1..n |-> ScanEntry(s[i])] : s \in perms}

\* SELECT ... FROM workout_entries WHERE workout_id = $1 ORDER BY order_index:
\* every sequence of the matching rows that ascends in order_index (rows of
\* equal order_index come in an order the database chooses), scanned
SelectEntries(d, id) ==
    LET rows == {e \in d.workout_entries : e.workout_id = id}
        n == Cardinality(rows)
        perms == {s \in [1..n -> rows] : \A i, j \in 1..n : i # j => s[i] # s[j]}
        sorted == {s \in perms :
                     \A i, j \in 1..n : i < j => s[i].order_index <= s[j].order_index}
    IN  {[i \in 1..n |-> ScanEntry(s[i])] : s \in sorted}

\* PostgresWorkoutStore.GetWorkoutByID: the results the call can return.
\* f names the query that fails: "none", "header" or "entries".
GetWorkoutByID(d, id, f) ==
    IF f = "header" THEN {[ret |-> Nil, err |-> ErrOther]}
    ELSE IF SelectWorkout(d, id) = {} THEN {[ret |-> Nil, err |-> NoErr]}
    ELSE IF f = "entries" THEN {[ret |-> Nil, err |-> ErrOther]}
    ELSE {[ret |-> Ptr([ScanWorkout(r) EXCEPT !.Entries = es]), err |-> NoErr] :
            r \in SelectWorkout(d, id), es \in SelectEntries(d, id)}

\* an update without the DELETE: the old entries stay
DeleteEntriesSkipped(tx, id) == tx

\* DELETE FROM workout_entries WHERE workout_id = $1
DeleteEntries(tx, id) ==
    [tx EXCEPT !.workout_entries = {e \in @ : e.workout_id # id}]

\* an update that does not look at the number of rows affected
NoRowsAffectedIgnored(rowsAffected) == FALSE

\* if rowsAffected == 0 { return sql.ErrNoRows }
NoRowsAffected(rowsAffected) == rowsAffected = 0

\* PostgresWorkoutStore.UpdateWorkout under fault f
UpdateWorkout(d, W, f) ==
    IF f.at \in {"begin", "header"}
    THEN [db |-> d, err |-> ErrOther]
    ELSE LET matched == {r \in d.workouts : r.id = W.ID}
             tx1 == [d EXCEPT !.workouts = (@ \ matched) \cup
                        {[r EXCEPT !.title = W.Title,
                                   !.description = W.Description,
                                   !.duration_minutes = W.DurationMinutes,
                                   !.calories_burned = W.CaloriesBurned] :
                            r \in matched}]
             rowsAffected == Cardinality(matched)
             tx2 == DeleteEntries(tx1, W.ID)
             tx3 == InsertEntries(tx2, W.ID, W.Entries,
                                  InsertedCount(Len(W.Entries), f))
         IN  IF f.at = "rows" THEN [db |-> Rollback(d, tx1), err |-> ErrOther]
             ELSE IF NoRowsAffected(rowsAffected)
             THEN [db |-> Rollback(d, tx1), err |-> ErrNoRows]
             ELSE IF f.at = "delete"
             THEN [db |-> Rollback(d, tx1), err |-> ErrOther]
             ELSE IF f.at \in {"entry", "commit"}
             THEN [db |-> Rollback(d, tx3), err |-> ErrOther]
             ELSE [db |-> tx3, err |-> NoErr]

\* WorkoutStore.GetWorkoutOwner: the owning user's identity, or the
\* not-found error. fail: the query fails.
GetWorkoutOwner(d, id, fail) ==
    IF fail THEN [owner |-> 0, err |-> ErrOther]
    ELSE IF SelectWorkout(d, id) = {} THEN [owner |-> 0, err |-> ErrNoRows]
    ELSE [owner |-> (CHOOSE r \in SelectWorkout(d, id) : TRUE).user_id,
          err |-> NoErr]

\* WorkoutStore.DeleteWorkout: removes the workout row and its entries;
\* the not-found error if the identity does not exist. fail: the statement
\* fails.
DeleteWorkout(d, id, fail) ==
    IF fail THEN [db |-> d, err |-> ErrOther]
    ELSE IF SelectWorkout(d, id) = {} THEN [db |-> d, err |-> ErrNoRows]
    ELSE [db |-> [d EXCEPT !.workouts = {r \in @ : r.id # id},
                           !.workout_entries = {e \in @ : e.workout_id # id}],
          err |-> NoErr]

-----------------------------------------------------------------------------
(* Handlers. A request r carries the user the middleware attached, the    *)
(* path parameter (idOK: ReadIDParam succeeds), the body (bodyOK: it      *)
(* decodes) and the database call that fails while it is handled. A       *)
(* handler returns the outcomes it can have: the committed database and   *)
(* the sequence of writes made to the response.                           *)

StatusOK == 200
StatusCreated == 201
StatusBadRequest == 400
StatusForbidden == 403
StatusNotFound == 404
StatusInternalServerError == 500

\* middleware.GetUser: nil, the AnonymousUser sentinel, or a user
NilUser == [kind |-> "nil", ID |-> 0]
AnonymousUser == [kind |-> "anonymous", ID |-> 0]
User(id) == [kind |-> "user", ID |-> id]
UserIDs == {1, 2}
Users == {NilUser, AnonymousUser} \cup {User(u) : u \in UserIDs}

\* a check that forgets the anonymous sentinel
NotLoggedInNilOnly(user) == user = NilUser

\* currentUser == nil || currentUser == store.AnonymousUser
NotLoggedIn(user) == user = NilUser \/ user = AnonymousUser

\* utils.WriteJSON(w, status, utils.Envelope{"error": msg}); http.Error and
\* http.NotFound write a status and a text the same way
WriteError(status, msg) ==
    [status |-> status, error |-> msg, workout |-> Nil, id |-> 0]
\* utils.WriteJSON(w, status, utils.Envelope{"workout": workout})
WriteWorkout(status, workout) ==
    [status |-> status, error |-> "", workout |-> workout, id |-> 0]
\* utils.WriteJSON(w, status, utils.Envelope{"workout": workoutID})
WriteID(status, id) ==
    [status |-> status, error |-> "", workout |-> Nil, id |-> id]

\* an outcome: the committed database, the writes made to the response
\* and the store operations the handler invoked, in order
Outcome(d, writes, calls) == [db |-> d, writes |-> writes, calls |-> calls]

\* the store faults a request's fault stands for
GetFault(r) == IF r.fault \in {"header", "entries"} THEN r.fault ELSE "none"
TxFault(r) == IF r.fault \in {"begin", "commit"} THEN Fault(r.fault) ELSE NoFault

\* a handler that does not tell the not-found error from the others
IsNoRowsNever(err) == FALSE

\* errors.Is(err, sql.ErrNoRows)
IsNoRows(err) == err = ErrNoRows

HandleGetWorkoutByID(d, r) ==
    IF ~r.idOK
    THEN {Outcome(d, <<WriteError(StatusBadRequest, "invalid workout id")>>, <<>>)}
    ELSE {IF g.err # NoErr
          THEN Outcome(d, <<WriteError(StatusInternalServerError,
                                       "internal server error")>>,
                       <<"GetWorkoutByID">>)
          ELSE Outcome(d, <<WriteWorkout(StatusOK, g.ret)>>, <<"GetWorkoutByID">>) :
            g \in GetWorkoutByID(d, r.id, GetFault(r))}

HandleCreateWorkout(d, r) ==
    IF ~r.bodyOK
    THEN {Outcome(d, <<WriteError(StatusBadRequest, "invalid request sent")>>, <<>>)}
    ELSE IF NotLoggedIn(r.user)
    THEN {Outcome(d, <<WriteError(StatusBadRequest, "you must be logged in")>>, <<>>)}
    ELSE LET workout == [r.body EXCEPT !.UserID = r.user.ID]
             c == CreateWorkout(d, workout, TxFault(r))
         IN  IF c.err # NoErr
             THEN {Outcome(c.db, <<WriteError(StatusInternalServerError,
                                              "failed to create workout")>>,
                           <<"CreateWorkout">>)}
             ELSE {Outcome(c.db, <<WriteWorkout(StatusCreated, c.ret)>>,
                           <<"CreateWorkout">>)}

\* a patch that takes a zero value for an absent field
ApplyUpdateSkipZero(existingWorkout, b) ==
    [existingWorkout EXCEPT
        !.Title = IF b.Title \notin {Nil, Ptr("")} THEN b.Title[1] ELSE @,
        !.Description =
            IF b.Description \notin {Nil, Ptr("")} THEN b.Description[1] ELSE @,
        !.DurationMinutes =
            IF b.DurationMinutes \notin {Nil, Ptr(0)} THEN b.DurationMinutes[1] ELSE @,
        !.CaloriesBurned =
            IF b.CaloriesBurned \notin {Nil, Ptr(0)} THEN b.CaloriesBurned[1] ELSE @,
        !.Entries = IF b.Entries \notin {Nil, Ptr(<<>>)} THEN b.Entries[1] ELSE @]

\* the updatedWorkoutRequest fields that are not nil, copied onto the
\* loaded workout
ApplyUpdate(existingWorkout, b) ==
    [existingWorkout EXCEPT
        !.Title = IF b.Title # Nil THEN b.Title[1] ELSE @,
        !.Description = IF b.Description # Nil THEN b.Description[1] ELSE @,
        !.DurationMinutes =
            IF b.DurationMinutes # Nil THEN b.DurationMinutes[1] ELSE @,
        !.CaloriesBurned =
            IF b.CaloriesBurned # Nil THEN b.CaloriesBurned[1] ELSE @,
        !.Entries = IF b.Entries # Nil THEN b.Entries[1] ELSE @]

\* HandleUpdateWorkoutByID from the loaded workout on
UpdateLoaded(d, r, loaded) ==
    IF ~r.bodyOK
    THEN Outcome(d, <<WriteError(StatusBadRequest, "invalid request payload")>>,
                 <<"GetWorkoutByID">>)
    ELSE IF NotLoggedIn(r.user)
    THEN Outcome(d, <<WriteError(StatusBadRequest, "you must be logged in")>>,
                 <<"GetWorkoutByID">>)
    ELSE LET existingWorkout == ApplyUpdate(loaded, r.body)
             o == GetWorkoutOwner(d, r.id, r.fault = "owner")
             u == UpdateWorkout(d, existingWorkout, TxFault(r))
             read == <<"GetWorkoutByID", "GetWorkoutOwner">>
         IN  IF o.err # NoErr /\ IsNoRows(o.err)
             THEN Outcome(d, <<WriteError(StatusNotFound, "workout does not exist")>>,
                          read)
             ELSE IF o.err # NoErr
             THEN Outcome(d, <<WriteError(StatusInternalServerError,
                                          "internal server error")>>, read)
             ELSE IF o.owner # r.user.ID
             THEN Outcome(d, <<WriteError(StatusForbidden,
                               "you are not authorized to update this workout")>>,
                          read)
             ELSE IF u.err # NoErr
             THEN Outcome(u.db, <<WriteError(StatusInternalServerError,
                                             "internal server error")>>,
                          Append(read, "UpdateWorkout"))
             ELSE Outcome(u.db, <<WriteWorkout(StatusOK, Ptr(existingWorkout))>>,
                          Append(read, "UpdateWorkout"))

HandleUpdateWorkoutByID(d, r) ==
    IF ~r.idOK
    THEN {Outcome(d, <<WriteError(StatusBadRequest, "invalid workout id")>>, <<>>)}
    ELSE {IF g.err # NoErr
          THEN Outcome(d, <<WriteError(StatusInternalServerError,
                                       "internal server error")>>,
                       <<"GetWorkoutByID">>)
          ELSE IF g.ret = Nil
          THEN Outcome(d, <<WriteError(StatusNotFound, "404 page not found")>>,
                       <<"GetWorkoutByID">>)
          ELSE UpdateLoaded(d, r, g.ret[1]) :
            g \in GetWorkoutByID(d, r.id, GetFault(r))}

\* The forbidden branch writes its response and does not return: the
\* handler goes on to DeleteWorkout and to the writes after it.
HandleDeleteWorkoutByID(d, r) ==
    IF ~r.idOK
    THEN {Outcome(d, <<WriteError(StatusBadRequest, "invalid workout id")>>, <<>>)}
    ELSE IF NotLoggedIn(r.user)
    THEN {Outcome(d, <<WriteError(StatusBadRequest, "you must be logged in")>>, <<>>)}
    ELSE LET o == GetWorkoutOwner(d, r.id, r.fault = "owner")
             forbidden ==
                 IF o.owner # r.user.ID
                 THEN <<WriteError(StatusForbidden,
                          "you are not authorized to update this workout")>>
                 ELSE <<>>
             x == DeleteWorkout(d, r.id, r.fault = "delete")
             calls == <<"GetWorkoutOwner", "DeleteWorkout">>
         IN  IF o.err # NoErr /\ IsNoRows(o.err)
             THEN {Outcome(d, <<WriteError(StatusNotFound, "workout does not exist")>>,
                           <<"GetWorkoutOwner">>)}
             ELSE IF o.err # NoErr
             THEN {Outcome(d, <<WriteError(StatusInternalServerError,
                                           "internal server error")>>,
                           <<"GetWorkoutOwner">>)}
             ELSE IF x.err = ErrNoRows
             THEN {Outcome(x.db, Append(forbidden,
                       WriteError(StatusNotFound, "workout not found")), calls)}
             ELSE IF x.err # NoErr
             THEN {Outcome(x.db, Append(forbidden,
                       WriteError(StatusInternalServerError,
                                  "errro deleting workout")), calls)}
             ELSE {Outcome(x.db, Append(forbidden, WriteID(StatusOK, r.id)), calls)}

\* The status of the HTTP response: the first status written (later
\* WriteHeader calls on the same response are ignored).
Status(writes) == IF writes = <<>> THEN StatusOK ELSE writes[1].status

-----------------------------------------------------------------------------
(* Inputs *)

\* workouts submitted for creation (ID and UserID are the zero values)
CreateBodies ==
    {MkWorkout(0, FullScalars, 0, <<Squat, Lunge>>),
     MkWorkout(0, FullScalars, 0, <<Lunge, Squat>>),
     MkWorkout(0, FullScalars, 0, <<Lunge, Plank>>),
     MkWorkout(0, ZeroScalars, 0, <<>>)}

\* identities a call can name: those assigned so far and the next one,
\* which no workout has
IDs(d) == 1..(d.workouts_id_seq + 1)

\* update request bodies: every subset S of the five fields present, the
\* present fields carrying either their zero values (with an empty entry
\* list) or non-zero values (with a one-entry list)
UpdateFields == ScalarFields \cup {"Entries"}
UpdateBody(S, sc, es) ==
    [Title |-> IF "Title" \in S THEN Ptr(sc.Title) ELSE Nil,
     Description |-> IF "Description" \in S THEN Ptr(sc.Description) ELSE Nil,
     DurationMinutes |->
         IF "DurationMinutes" \in S THEN Ptr(sc.DurationMinutes) ELSE Nil,
     CaloriesBurned |->
         IF "CaloriesBurned" \in S THEN Ptr(sc.CaloriesBurned) ELSE Nil,
     Entries |-> IF "Entries" \in S THEN Ptr(es) ELSE Nil]
NewScalars == [Title |-> "Push Day", Description |-> "chest",
               DurationMinutes |-> 30, CaloriesBurned |-> 320]
UpdateBodies ==
    {UpdateBody(S, ZeroScalars, <<>>) : S \in SUBSET UpdateFields}
        \cup {UpdateBody(S, NewScalars, <<Squat>>) : S \in SUBSET UpdateFields}
NoBody == UpdateBody({}, ZeroScalars, <<>>)

Request(op, user, idOK, id, bodyOK, body, fault) ==
    [op |-> op, user |-> user, idOK |-> idOK, id |-> id, bodyOK |-> bodyOK,
     body |-> body, fault |-> fault]

\* path parameters: one that does not parse, or an identity
PathParams(d) == {<<FALSE, 0>>} \cup {<<TRUE, id>> : id \in IDs(d)}

Existing(d) == {p \in PathParams(d) : SelectWorkout(d, p[2]) # {}}

GetRequests(d) ==
    {Request("GET", NilUser, p[1], p[2], FALSE, NoBody, "none") : p \in PathParams(d)}
      \cup {Request("GET", NilUser, p[1], p[2], FALSE, NoBody, f) :
              p \in Existing(d), f \in {"header", "entries"}}

CreateRequests ==
    {Request("POST", u, FALSE, 0, TRUE, b, "none") : u \in Users, b \in CreateBodies}
      \cup {Request("POST", u, FALSE, 0, FALSE, NoBody, "none") : u \in Users}
      \cup {Request("POST", u, FALSE, 0, TRUE, b, f) :
              u \in Users, b \in {MkWorkout(0, FullScalars, 0, <<Squat, Lunge>>)},
              f \in {"begin", "commit"}}

\* The body of an update request is read when the handler decodes it,
\* after the workout was loaded; a request that does not get there has no
\* body read.
UpdateRequests(d) ==
    {Request("PUT", u, p[1], p[2], TRUE, b, "none") :
        u \in Users, p \in Existing(d), b \in UpdateBodies}
      \cup {Request("PUT", u, p[1], p[2], FALSE, NoBody, "none") :
              u \in Users, p \in PathParams(d)}
      \cup {Request("PUT", u, p[1], p[2], TRUE, b, f) :
              u \in Users, p \in Existing(d),
              b \in {UpdateBody(UpdateFields, NewScalars, <<Squat>>)},
              f \in {"header", "entries", "owner", "begin", "commit"}}

DeleteRequests(d) ==
    {Request("DELETE", u, p[1], p[2], FALSE, NoBody, "none") :
        u \in Users, p \in PathParams(d)}
      \cup {Request("DELETE", u, p[1], p[2], FALSE, NoBody, f) :
              u \in Users, p \in Existing(d), f \in {"owner", "delete"}}

\* the other value of a scalar field
Other(field, v) ==
    IF v = FullScalars[field] THEN ZeroScalars[field] ELSE FullScalars[field]

\* workouts passed to UpdateWorkout directly: any identity with new scalar
\* fields and a submitted entry list, or a workout just read with one
\* scalar field changed
ReadWorkouts(d) ==
    UNION {{g.ret[1] : g \in {h \in GetWorkoutByID(d, id, "none") : h.ret # Nil}} :
             id \in IDs(d)}
StoreUpdateInputs(d) ==
    {MkWorkout(id, sc, 0, es) :
        id \in IDs(d), sc \in {ZeroScalars, NewScalars}, es \in EntryLists}
      \cup UNION {{[w EXCEPT ![fld] = Other(fld, @)] : fld \in ScalarFields} :
                    w \in ReadWorkouts(d)}

\* every fault is injected into the updates that submit two entries; the
\* other updates run without fault
StoreUpdateFaults(W) ==
    IF W.Entries = <<Squat, Lunge>> /\ W.Title = NewScalars.Title
    THEN UpdateFaults(Len(W.Entries)) ELSE {NoFault}

-----------------------------------------------------------------------------
(* State machine *)

Idle == [pc |-> "idle", id |-> 0, workout |-> Nil, ret |-> Nil]

Init ==
    /\ db = EmptyDB
    /\ req = [op |-> "none"]
    /\ resp = [writes |-> <<>>, calls |-> <<>>, ret |-> Nil, err |-> NoErr]
    /\ pre = EmptyDB
    /\ nreq = 0
    /\ rd = Idle
    /\ versions = {}

CanCall == nreq < MaxRequests

Record(r, d, writes, calls, ret, err) ==
    /\ req' = r
    /\ db' = d
    /\ resp' = [writes |-> writes, calls |-> calls, ret |-> ret, err |-> err]
    /\ pre' = db
    /\ nreq' = nreq + 1

\* direct calls of the store
CreateCall ==
    /\ CanCall
    /\ \E w \in CreateBodies : \E f \in CreateFaults(Len(w.Entries)) :
        LET workout == [w EXCEPT !.UserID = 1]
            c == CreateWorkout(db, workout, f)
        IN  Record([op |-> "CreateWorkout", workout |-> workout, fault |-> f],
                   c.db, <<>>, <<"CreateWorkout">>, c.ret, c.err)

UpdateCall ==
    /\ CanCall
    /\ \E W \in StoreUpdateInputs(db) : \E f \in StoreUpdateFaults(W) :
        LET u == UpdateWorkout(db, W, f)
        IN  Record([op |-> "UpdateWorkout", workout |-> W, fault |-> f],
                   u.db, <<>>, <<"UpdateWorkout">>, Nil, u.err)

CallCreateWorkout == CreateCall /\ UNCHANGED <<rd, versions>>

CallGetWorkoutByID ==
    /\ CanCall
    /\ \E id \in IDs(db), f \in {"none", "header", "entries"} :
        \E g \in GetWorkoutByID(db, id, f) :
            /\ Record([op |-> "GetWorkoutByID", id |-> id, fault |-> f],
                      db, <<>>, <<"GetWorkoutByID">>, g.ret, g.err)
            /\ UNCHANGED <<rd, versions>>

CallUpdateWorkout == UpdateCall /\ UNCHANGED <<rd, versions>>

\* HTTP requests
Handled(r, outcomes) ==
    \E o \in outcomes :
        /\ Record(r, o.db, o.writes, o.calls, Nil, NoErr)
        /\ UNCHANGED <<rd, versions>>

RequestGet ==
    /\ CanCall
    /\ \E r \in GetRequests(db) : Handled(r, HandleGetWorkoutByID(db, r))
RequestCreate ==
    /\ CanCall
    /\ \E r \in CreateRequests : Handled(r, HandleCreateWorkout(db, r))
RequestUpdate ==
    /\ CanCall
    /\ \E r \in UpdateRequests(db) : Handled(r, HandleUpdateWorkoutByID(db, r))
RequestDelete ==
    /\ CanCall
    /\ \E r \in DeleteRequests(db) : Handled(r, HandleDeleteWorkoutByID(db, r))

Next ==
    \/ CallCreateWorkout
    \/ CallGetWorkoutByID
    \/ CallUpdateWorkout
    \/ RequestGet
    \/ RequestCreate
    \/ RequestUpdate
    \/ RequestDelete

Spec == Init /\ [][Next]_vars

-----------------------------------------------------------------------------
(* Concurrent requests. Each request runs on its own goroutine and the    *)
(* store shares one connection pool. GetWorkoutByID issues its two        *)
(* queries on pg.db, outside any transaction, so each query sees the      *)
(* database as committed when it runs; CreateWorkout and UpdateWorkout    *)
(* run in a transaction, whose statements become visible together at      *)
(* Commit.                                                                *)

\* the results a GetWorkoutByID(id) that saw only the committed state d
\* could return
CommittedVersion(d, id) == GetWorkoutByID(d, id, "none")

\* a write commits while a read may be in progress
Observed ==
    /\ rd' = rd
    /\ versions' = IF rd.pc = "idle" THEN versions
                   ELSE versions \cup CommittedVersion(db', rd.id)

ConcCreateWorkout == CreateCall /\ Observed
ConcUpdateWorkout == UpdateCall /\ Observed

\* first query of GetWorkoutByID(id): the header row
ReadHeader ==
    /\ rd.pc = "idle"
    /\ \E id \in IDs(db) :
        /\ rd' = IF SelectWorkout(db, id) = {}
                 THEN [pc |-> "done", id |-> id, workout |-> Nil, ret |-> Nil]
                 ELSE [pc |-> "entries", id |-> id,
                       workout |-> Ptr(ScanWorkout(
                                     CHOOSE r \in SelectWorkout(db, id) : TRUE)),
                       ret |-> Nil]
        /\ versions' = CommittedVersion(db, id)
    /\ UNCHANGED <<db, req, resp, pre, nreq>>

\* second query of GetWorkoutByID(id): the entries, appended to the workout
ReadEntries ==
    /\ rd.pc = "entries"
    /\ \E es \in SelectEntries(db, rd.id) :
        rd' = [rd EXCEPT !.pc = "done",
                         !.ret = Ptr([rd.workout[1] EXCEPT !.Entries = es])]
    /\ UNCHANGED <<db, req, resp, pre, nreq, versions>>

\* the call returns rd.ret
ReadReturn ==
    /\ rd.pc = "done"
    /\ rd' = Idle
    /\ versions' = {}
    /\ UNCHANGED <<db, req, resp, pre, nreq>>

NextConc ==
    \/ ConcCreateWorkout
    \/ ConcUpdateWorkout
    \/ ReadHeader
    \/ ReadEntries
    \/ ReadReturn

SpecConc == Init /\ [][NextConc]_vars

-----------------------------------------------------------------------------
(* Properties *)

\* the two tables of a database state
Tables(d) == [workouts |-> d.workouts, workout_entries |-> d.workout_entries]

\* the stored workout id: its header row and its entry rows
EntriesOf(d, id) == {e \in d.workout_entries : e.workout_id = id}
Stored(d, id) == [header |-> SelectWorkout(d, id), entries |-> EntriesOf(d, id)]

LoggedIn(user) == user.kind = "user"
Unauthenticated(user) == user.kind \in {"nil", "anonymous"}

\* C1: a logged-in user who does not own workout W gets a forbidden result
\* for an update or a delete of W, and W's header row and entries are
\* afterwards what they were before the request (W still exists).
C1_NonOwnerForbiddenUnmodified ==
    (/\ req.op \in {"PUT", "DELETE"}
     /\ req.idOK /\ req.fault = "none" /\ (req.op = "PUT" => req.bodyOK)
     /\ LoggedIn(req.user)
     /\ \E w \in SelectWorkout(pre, req.id) : w.user_id # req.user.ID)
    => /\ Status(resp.writes) = StatusForbidden
       /\ Stored(db, req.id) = Stored(pre, req.id)

\* C2: a CreateWorkout whose header insert succeeds and whose k-th entry
\* insert or whose Commit fails returns an error and no workout, and the
\* committed tables equal the tables before the call.
C2_CreateAtomic ==
    (req.op = "CreateWorkout" /\ req.fault.at \in {"entry", "commit"})
    => /\ resp.err # NoErr
       /\ resp.ret = Nil
       /\ Tables(db) = Tables(pre)

\* C2 witness: the second of two entry inserts failed, after the header and
\* the first entry were inserted in the transaction
C2_Witness ==
    /\ req.op = "CreateWorkout"
    /\ req.fault = [at |-> "entry", k |-> 2]
    /\ Len(req.workout.Entries) = 2
    /\ db.workouts_id_seq = pre.workouts_id_seq + 1
    /\ resp.err # NoErr

\* the workout a successful create returned: CreateWorkout's result, or the
\* body of the 201 response
Created ==
    IF req.op = "CreateWorkout" /\ resp.err = NoErr THEN resp.ret
    ELSE IF req.op = "POST" /\ Status(resp.writes) = StatusCreated
    THEN resp.writes[1].workout
    ELSE Nil

\* the workout that was submitted to that create
Submitted == IF req.op = "CreateWorkout" THEN req.workout ELSE req.body

\* C3: the workout a successful create returns has the identity the
\* database assigned, its entries are the submitted entries in the submitted
\* order, and each returned entry carries the identity of the row inserted
\* for it, these identities being pairwise distinct.
C3_ReturnedIdentities ==
    Created # Nil =>
        LET w == Created[1]
            n == Len(Submitted.Entries)
        IN  /\ w.ID = db.workouts_id_seq
            /\ SelectWorkout(db, w.ID) # {} /\ SelectWorkout(pre, w.ID) = {}
            /\ Len(w.Entries) = n
            /\ \A i \in 1..n :
                 /\ [w.Entries[i] EXCEPT !.ID = 0] = [Submitted.Entries[i] EXCEPT !.ID = 0]
                 /\ EntryRow(w.Entries[i].ID, w.ID, Submitted.Entries[i])
                        \in db.workout_entries
            /\ \A i, j \in 1..n : i # j => w.Entries[i].ID # w.Entries[j].ID

\* C4: an UpdateWorkout that fails leaves the committed tables as they were;
\* a fault at any step of an update of an existing workout makes it fail;
\* for an identity that no workout has it returns sql.ErrNoRows and runs
\* neither the DELETE nor an INSERT on workout_entries.
C4_UpdateAllOrNothing ==
    req.op = "UpdateWorkout" =>
        /\ resp.err # NoErr => Tables(db) = Tables(pre)
        /\ (req.fault # NoFault /\ SelectWorkout(pre, req.workout.ID) # {})
              => resp.err # NoErr
        /\ (SelectWorkout(pre, req.workout.ID) = {}
              /\ req.fault.at \notin {"begin", "header", "rows"})
              => /\ resp.err = ErrNoRows
                 /\ db = pre

\* C4 witness: the second of two entry inserts failed in an update of a
\* workout that has entries, after the header was updated and the old
\* entries deleted in the transaction
C4_Witness ==
    /\ req.op = "UpdateWorkout"
    /\ req.fault = [at |-> "entry", k |-> 2]
    /\ EntriesOf(pre, req.workout.ID) # {}
    /\ \E w \in SelectWorkout(pre, req.workout.ID) : w.title # req.workout.Title
    /\ resp.err # NoErr

\* C5: a GetWorkoutByID that runs while CreateWorkout or UpdateWorkout
\* commit returns a header and an entry list of one committed version of
\* the workout: what it returns is what a read of one of the database states
\* committed during the call returns.
C5_ReadOneVersion ==
    rd.pc = "done" => [ret |-> rd.ret, err |-> NoErr] \in versions

\* an entry without the identity of its row
Content(e) == [e EXCEPT !.ID = 0]

\* the two lists hold the same entries, each as often, whatever the order
SameEntries(a, b) ==
    /\ Len(a) = Len(b)
    /\ \E p \in {q \in [1..Len(a) -> 1..Len(a)] :
                   \A i, j \in 1..Len(a) : i # j => q[i] # q[j]} :
          \A i \in 1..Len(a) : Content(a[i]) = Content(b[p[i]])

\* the list the last call wrote as the workout's entries, when it was a
\* successful update that supplied one, and the workout it updated
Replaced ==
    IF req.op = "UpdateWorkout" /\ resp.err = NoErr THEN Ptr(req.workout.Entries)
    ELSE IF req.op = "PUT" /\ Status(resp.writes) = StatusOK THEN req.body.Entries
    ELSE Nil
UpdatedID == IF req.op = "UpdateWorkout" THEN req.workout.ID ELSE req.id

\* C6: after a successful update that supplies a list of n entries, a
\* GetWorkoutByID returns exactly those n entries and no row that was stored
\* before the update.
C6_EntriesReplaced ==
    Replaced # Nil =>
        \A g \in GetWorkoutByID(db, UpdatedID, "none") :
            /\ g.ret # Nil
            /\ SameEntries(g.ret[1].Entries, Replaced[1])
            /\ \A i \in 1..Len(g.ret[1].Entries) :
                 g.ret[1].Entries[i].ID \notin {e.id : e \in pre.workout_entries}

\* C6 witness: an update request replaced two stored entries by a shorter list
C6_Witness ==
    /\ req.op = "PUT"
    /\ Replaced # Nil
    /\ Len(Replaced[1]) < Cardinality(EntriesOf(pre, UpdatedID))
    /\ Cardinality(EntriesOf(db, UpdatedID)) = Len(Replaced[1])

\* a successful update request
Updated == req.op = "PUT" /\ Status(resp.writes) = StatusOK

\* the value a field has after a request with body b, given its old value
Patched(b, field, old) == IF b[field] # Nil THEN b[field][1] ELSE old

\* what a successful update request leaves: in the stored and in the
\* returned workout every field present in the request has the request's
\* value, a zero value included, and every other field the value stored
\* before the request. For an entry list that is not in the request, sameRows
\* asks for the very rows stored before; without it the stored entries have
\* the columns and the order they had, whatever the identity of their rows.
PartialUpdate(sameRows) ==
    LET b == req.body
        old == CHOOSE r \in SelectWorkout(pre, req.id) : TRUE
        ret == resp.writes[1].workout[1]
    IN  /\ SelectWorkout(db, req.id) # {}
        /\ \A new \in SelectWorkout(db, req.id) :
             /\ new.title = Patched(b, "Title", old.title)
             /\ new.description = Patched(b, "Description", old.description)
             /\ new.duration_minutes =
                    Patched(b, "DurationMinutes", old.duration_minutes)
             /\ new.calories_burned =
                    Patched(b, "CaloriesBurned", old.calories_burned)
        /\ ret.Title = Patched(b, "Title", old.title)
        /\ ret.Description = Patched(b, "Description", old.description)
        /\ ret.DurationMinutes = Patched(b, "DurationMinutes", old.duration_minutes)
        /\ ret.CaloriesBurned = Patched(b, "CaloriesBurned", old.calories_burned)
        /\ \E was \in SelectEntries(pre, req.id) :
             ret.Entries = Patched(b, "Entries", was)
        /\ \A now \in SelectEntries(db, req.id) :
             \E was \in SelectEntries(pre, req.id) :
                LET want == Patched(b, "Entries", was)
                IN  IF b.Entries # Nil THEN SameEntries(now, want)
                    ELSE /\ Len(now) = Len(want)
                         /\ \A i \in 1..Len(now) : Content(now[i]) = Content(want[i])
        /\ (sameRows /\ b.Entries = Nil)
              => EntriesOf(db, req.id) = EntriesOf(pre, req.id)

\* C7 as stated: after a successful update request by the owner, the stored
\* and the returned workout have the request's values for the fields
\* present in it and the values stored before the request for every other
\* field, the stored entry list included.
C7_PartialUpdateSameRows == Updated => PartialUpdate(TRUE)

\* C7 amended: the same, except that an entry list absent from the request
\* is stored again with the same columns in the same order under new row
\* identities; the returned workout carries the entries as loaded.
C7_PartialUpdate == Updated => PartialUpdate(FALSE)

\* C7 witness: a request with calories_burned alone, its value zero, on a
\* workout whose fields are all non-zero and which has entries
C7_Witness ==
    /\ Updated
    /\ req.body = UpdateBody({"CaloriesBurned"}, ZeroScalars, <<>>)
    /\ \E r \in SelectWorkout(pre, req.id) :
         /\ r.calories_burned # 0 /\ r.title # "" /\ r.duration_minutes # 0
    /\ Cardinality(EntriesOf(pre, req.id)) = 2

\* the last call was UpdateWorkout of a workout just read, the entries as
\* read and exactly one scalar field changed
RoundTrip ==
    /\ req.op = "UpdateWorkout"
    /\ resp.err = NoErr
    /\ \E g \in GetWorkoutByID(pre, req.workout.ID, "none") :
         /\ g.ret # Nil
         /\ g.ret[1].Entries = req.workout.Entries
         /\ Cardinality({f \in ScalarFields : g.ret[1][f] # req.workout[f]}) = 1

\* C8: GetWorkoutByID, UpdateWorkout of the workout read with one scalar
\* field changed, GetWorkoutByID again: the second read has as many entries
\* as the first and the same sequence of OrderIndex values, ascending.
C8_RoundTrip ==
    RoundTrip =>
        \A g \in GetWorkoutByID(db, req.workout.ID, "none") :
            /\ g.ret # Nil
            /\ Len(g.ret[1].Entries) = Len(req.workout.Entries)
            /\ \A i \in 1..Len(g.ret[1].Entries) :
                 g.ret[1].Entries[i].OrderIndex = req.workout.Entries[i].OrderIndex
            /\ \A i, j \in 1..Len(g.ret[1].Entries) :
                 i < j => g.ret[1].Entries[i].OrderIndex
                            <= g.ret[1].Entries[j].OrderIndex

\* C8 witness: a round trip of a workout whose two entries were inserted in
\* descending OrderIndex
C8_Witness ==
    /\ RoundTrip
    /\ \E e1, e2 \in EntriesOf(pre, req.workout.ID) :
         e1.id < e2.id /\ e1.order_index > e2.order_index

\* the handler got as far as its check of the current user: the body
\* decoded (create, update), the path parameter parsed (update, delete) and
\* the workout was loaded (update)
ReachedUserCheck ==
    \/ req.op = "POST" /\ req.bodyOK
    \/ /\ req.op = "PUT" /\ req.idOK /\ req.bodyOK
       /\ req.fault \notin {"header", "entries"}
       /\ SelectWorkout(pre, req.id) # {}
    \/ req.op = "DELETE" /\ req.idOK

Mutating == {"CreateWorkout", "UpdateWorkout", "DeleteWorkout"}

\* C9 as stated: a create, update or delete request whose user is nil or
\* the anonymous sentinel gets bad request with the authentication message,
\* and no mutating store operation is invoked.
C9_NotLoggedInBadRequest ==
    (req.op \in {"POST", "PUT", "DELETE"} /\ Unauthenticated(req.user))
    => /\ Status(resp.writes) = StatusBadRequest
       /\ resp.writes[1].error = "you must be logged in"
       /\ \A i \in 1..Len(resp.calls) : resp.calls[i] \notin Mutating
       /\ db = pre

\* C9 amended: such a request never invokes a mutating store operation and
\* leaves the database as it was; it gets bad request with the
\* authentication message when the handler got as far as its user check.
C9_NotLoggedInNoMutation ==
    (req.op \in {"POST", "PUT", "DELETE"} /\ Unauthenticated(req.user))
    => /\ \A i \in 1..Len(resp.calls) : resp.calls[i] \notin Mutating
       /\ db = pre
       /\ ReachedUserCheck =>
             /\ Len(resp.writes) = 1
             /\ Status(resp.writes) = StatusBadRequest
             /\ resp.writes[1].error = "you must be logged in"

\* C9 witness: the anonymous user asked for an update of a stored workout
C9_Witness ==
    /\ req.op = "PUT"
    /\ req.user = AnonymousUser
    /\ ReachedUserCheck
    /\ req.body.Entries # Nil
    /\ Status(resp.writes) = StatusBadRequest

\* C10: a delete request by a logged-in user for an identity that no
\* workout has gets a not-found result, never the success response with
\* the identity, and leaves the database as it was.
C10_DeleteMissingNotFound ==
    (/\ req.op = "DELETE" /\ req.idOK /\ req.fault = "none"
     /\ LoggedIn(req.user)
     /\ SelectWorkout(pre, req.id) = {})
    => /\ Status(resp.writes) = StatusNotFound
       /\ \A i \in 1..Len(resp.writes) : resp.writes[i].status # StatusOK
       /\ "DeleteWorkout" \notin {resp.calls[i] : i \in 1..Len(resp.calls)}
       /\ db = pre

\* C10 witness: such a request while another workout is stored
C10_Witness ==
    /\ req.op = "DELETE" /\ req.idOK /\ req.fault = "none"
    /\ LoggedIn(req.user)
    /\ SelectWorkout(pre, req.id) = {}
    /\ pre.workouts # {}
    /\ Status(resp.writes) = StatusNotFound

====
